---- MODULE Spec2Model ----
(***************************************************************************)
(* The bulk import of github_importer: DataImporter.import_data driving    *)
(* GitHubClient.create_milestone / create_issue through                    *)
(* GitHubClient._make_request and GitHubClient._handle_rate_limit.         *)
(***************************************************************************)
EXTENDS Integers, Sequences, FiniteSets, TLC

\* ---------------------------------------------------------------- bounds
MaxMilestones == 2
MaxIssues == 2
MaxClock == 4
RateWindow == 2
IdOffset == 100
MaxToken == 2
MaxInvocations == 3
MaxRepoIssues == 3
PageSize == 2
MaxNesting == 2
MaxListQueries == 4
ExportPerPage == 1
MaxFlaskThreads == 2

\* ------------------------------------------------------ program constants
\* github_client.py:72  "if self.rate_limit_remaining < 10"
LowRemaining == 10
\* github_client.py:35-36  rate_limit_remaining = rate_limit_reset = None
None == -1

VARIABLES
    file,                  \* what open()/json.load() meet: "missing", "invalid_json", "ok"
    data,                  \* the parsed import document (sequence of milestone_data)
    pc,                    \* position of import_data
    mi,                    \* index of the current milestone_data in data
    ii,                    \* index of the current issue_data in its milestone
    milestone_id,          \* import_data's local milestone_id
    result,                \* return value of import_data ("none" while running)
    calls,                 \* the create_* calls issued so far, in order
    logged,                \* logger.info / logger.error records, in order
    rate_limit_remaining,  \* GitHubClient.rate_limit_remaining
    rate_limit_reset,      \* GitHubClient.rate_limit_reset
    now,                   \* time.time()
    last,                  \* the most recent logical call of _make_request
    srv_count,             \* milestones the server has created so far
    origin                 \* where the import document comes from: a file written
                           \* for the importer, or get_milestones_with_issues

VARIABLES
    access_token,          \* AuthManager.access_token (NoToken: None)
    refresh_token,         \* AuthManager.refresh_token
    on_auth_success,       \* AuthManager.on_auth_success is set
    stored,                \* what TokenStorage holds: <<access, refresh>>
    invoked,               \* the tokens on_auth_success was called with, in order
    token,                 \* GitHubClient.token
    headers,               \* the token inside GitHubClient.headers["Authorization"]
    last_refresh,          \* the most recent call of refresh_access_token
    script                 \* what the server held ready during the most recent
                           \* logical call of the client: refresh answer, retry status

VARIABLES
    seen,                  \* rate-limit headers of the most recent response received
    del_pc,                \* position of delete_all_issues
    srv_total,             \* issues the repository holds when they are listed
    cursor,                \* delete_all_issues' local cursor (NoCursor: None)
    all_issue_node_ids,    \* delete_all_issues' local list
    di,                    \* node ids delete_issues_individually has gone through
    list_queries,          \* list queries posted so far
    del_failed,            \* node ids whose delete mutation failed
    del_slept,             \* node ids whose turn of the loop ended with the pause
    variables_cursor,      \* variables["cursor"] of the list query (NoCursor: not set)
    srv_null_cursor        \* the server may answer hasNextPage with a null endCursor

deleteVars == <<del_pc, srv_total, cursor, all_issue_node_ids, di, list_queries,
                del_failed, del_slept, variables_cursor, srv_null_cursor>>

VARIABLES
    stack,                 \* the GUI handlers running on the Tk thread, innermost last
    label_ok,              \* status_label is a widget with config() and update()
    last_clear             \* the most recent call of the clear operation

guiVars == <<stack, label_ok, last_clear>>

VARIABLES
    exp_pc,                \* position of get_milestones_with_issues
    srv_issues,            \* the repository: per milestone, the comment count of each issue
    milestones,            \* get_milestones_with_issues' local list
    milestone_issues,      \* its local list for the current milestone
    em,                    \* index of the current milestone in milestones
    fetched,               \* issues of the current milestone received so far
    exp_reqs,              \* the requests of the export, in order
    exp_result             \* how the call ended: "none", "returned", "raise"

exportVars == <<exp_pc, srv_issues, milestones, milestone_issues, em, fetched,
                exp_reqs, exp_result>>

VARIABLES
    setup_completed,       \* Application.setup_completed
    data_importer,         \* the token of the client Application.data_importer wraps
    installed,             \* the tokens of the clients the completed setups installed
    inv,                   \* per thread, its invocation of setup_after_auth
    n_inv                  \* invocations of setup_after_auth begun so far

appVars == <<setup_completed, data_importer, installed, inv, n_inv>>

VARIABLES
    repo_selection,        \* RepoSelector.repo_selection (a StringVar)
    import_button,         \* the state of the import button
    disk,                  \* the files open() can find
    mw_import              \* the last run of MainWindow.import_milestones

mwVars == <<repo_selection, import_button, disk, mw_import>>

authVars == <<access_token, refresh_token, on_auth_success, stored, invoked,
              token, headers, last_refresh, script>>

importVars == <<file, data, pc, mi, ii, milestone_id, result, calls, logged, srv_count,
                origin>>

clientVars == <<rate_limit_remaining, rate_limit_reset, now, last, seen>>

vars == <<file, data, pc, mi, ii, milestone_id, result, calls, logged,
          rate_limit_remaining, rate_limit_reset, now, last, srv_count, origin,
          authVars, seen, deleteVars, guiVars, exportVars, appVars, mwVars>>

\* ------------------------------------------------------------- documents
SeqsUpTo(S, n) == UNION {[1..k -> S] : k \in 0..n}

\* milestone_data: its "issues" list, each issue_data named by its position.
\* Whether the keys of an item fit its dataclass is drawn when the item is
\* reached (each item is read once and the document is never written).
MilestoneData == [issues : {[j \in 1..k |-> j] : k \in 0..MaxIssues}]

Documents == SeqsUpTo(MilestoneData, MaxMilestones)

FileStates == {"missing", "invalid_json", "ok"}

Origins == {"file", "export"}

\* the fields of the dataclasses Milestone and Issue
MilestoneFields == {"title", "description", "due_on", "state", "issues"}
IssueFields == {"title", "description", "overview", "tasks", "labels", "assignees",
                "comments", "milestone"}

\* the keys of a milestone and of an issue in the list that
\* get_milestones_with_issues returns: GitHub's milestone object with
\* "issues" added, and formatted_issue
ExportedMilestoneKeys == {"url", "id", "number", "title", "description", "state",
                          "due_on", "created_at", "updated_at", "issues"}
ExportedIssueKeys == {"title", "number", "state", "body", "created_at", "updated_at",
                      "labels", "comments_count", "comments"}

\* Milestone(**milestone_data): TypeError unless title is there and every
\* key is a field
MilestoneFits(keys) == "title" \in keys /\ keys \subseteq MilestoneFields

\* Issue(**issue_data, milestone = milestone_id): issue_data may not name
\* milestone itself
IssueFits(keys) == "title" \in keys /\ keys \subseteq (IssueFields \ {"milestone"})

\* whether the keys of an item fit its dataclass: any case for a file
\* written by hand, the exported keys for an exported document
FieldsOk(o, kind) ==
    IF o = "file" THEN BOOLEAN
    ELSE IF kind = "milestone" THEN {MilestoneFits(ExportedMilestoneKeys)}
    ELSE {IssueFits(ExportedIssueKeys)}

\* ------------------------------------------------------------- responses
Absent == [k |-> "absent", v |-> 0]
Malformed == [k |-> "bad", v |-> 0]
IntHeader(n) == [k |-> "int", v |-> n]

RemainingHeaders == {Absent, Malformed} \cup {IntHeader(n) : n \in {0, 5, 50}}

ResetHeaders(t) ==
    {Absent, Malformed} \cup
    (IF t + RateWindow <= MaxClock THEN {IntHeader(t + RateWindow)} ELSE {})

Statuses == {201, 401, 403, 422, 429}

NetworkFailure == [kind |-> "neterr", status |-> 0, remaining |-> Absent, reset |-> Absent]

Responses(t) ==
    {NetworkFailure} \cup
    [kind : {"response"}, status : Statuses,
     remaining : RemainingHeaders, reset : ResetHeaders(t)]

\* what response.json() yields for a 2xx create_milestone response
Bodies == {"full", "empty", "noid"}

\* the server's JSON answer to a successful POST /milestones, as import_data
\* sees it: truthy unless the body is empty, "id" present in a full body.
MilestoneResponse(body, n) ==
    [truthy |-> body # "empty",
     id     |-> IF body = "full" THEN IdOffset + n ELSE None,
     number |-> IF body = "full" THEN n ELSE None]

\* create_milestone raised: import_data holds no milestone_response
NoResponse == [truthy |-> FALSE, id |-> None, number |-> None]

\* ------------------------------------------------------------ the client
Max(a, b) == IF a >= b THEN a ELSE b

\* int(response.headers.get(name, 0)) when it does not raise
HeaderInt(h) == IF h.k = "absent" THEN 0 ELSE h.v

\* no response has been received yet
NoSeen == [remaining |-> [k |-> "none", v |-> 0], reset |-> [k |-> "none", v |-> 0]]

\* the rate-limit headers the most recent response carried; a network
\* failure brings no response
Seen(resp, old) ==
    IF resp.kind = "neterr" THEN old
    ELSE [remaining |-> resp.remaining, reset |-> resp.reset]

ClientState ==
    [remaining |-> rate_limit_remaining, reset |-> rate_limit_reset, now |-> now]

\* GitHubClient._handle_rate_limit: the state after it, how long it slept
\* and the exception it raised (int() of a malformed header: ValueError).
HandleRateLimit(resp, st) ==
    IF resp.remaining.k = "bad"
    THEN [remaining |-> st.remaining, reset |-> st.reset, now |-> st.now,
          slept |-> FALSE, wait |-> 0, exc |-> "ValueError"]
    ELSE IF resp.reset.k = "bad"
    THEN [remaining |-> HeaderInt(resp.remaining), reset |-> st.reset, now |-> st.now,
          slept |-> FALSE, wait |-> 0, exc |-> "ValueError"]
    ELSE LET rem  == HeaderInt(resp.remaining)
             rst  == HeaderInt(resp.reset)
             low  == rem < LowRemaining
             wait == IF low THEN Max(rst - st.now, 0) ELSE 0
         IN  [remaining |-> rem, reset |-> rst, now |-> st.now + wait,
              slept |-> low, wait |-> wait, exc |-> "none"]

\* _make_request with a retry loop around the request: a rate-limited
\* response is retried until the third attempt
MakeRequestRetryLoop(resp, st) ==
    IF resp.kind = "neterr"
    THEN [requests |-> 1, exc |-> "RequestException", error_logged |-> TRUE,
          remaining |-> st.remaining, reset |-> st.reset, now |-> st.now,
          slept |-> FALSE, wait |-> 0]
    ELSE LET h == HandleRateLimit(resp, st) IN
         [requests |-> IF h.exc = "none" /\ resp.status \in {403, 429} THEN 3 ELSE 1,
          exc |-> IF h.exc # "none" THEN h.exc
                  ELSE IF resp.status >= 400 THEN "RequestException" ELSE "none",
          error_logged |-> h.exc = "none" /\ resp.status >= 400,
          remaining |-> h.remaining, reset |-> h.reset, now |-> h.now,
          slept |-> h.slept, wait |-> h.wait]

\* _make_request trying once more after a network-level failure or a
\* non-2xx status
MakeRequestRetryFailure(resp, st) ==
    IF resp.kind = "neterr"
    THEN [requests |-> 2, exc |-> "RequestException", error_logged |-> TRUE,
          remaining |-> st.remaining, reset |-> st.reset, now |-> st.now,
          slept |-> FALSE, wait |-> 0]
    ELSE LET h == HandleRateLimit(resp, st) IN
         [requests |-> IF h.exc = "none" /\ resp.status >= 400 THEN 2 ELSE 1,
          exc |-> IF h.exc # "none" THEN h.exc
                  ELSE IF resp.status >= 400 THEN "RequestException" ELSE "none",
          error_logged |-> h.exc = "none" /\ resp.status >= 400,
          remaining |-> h.remaining, reset |-> h.reset, now |-> h.now,
          slept |-> h.slept, wait |-> h.wait]

\* GitHubClient._make_request for one logical call whose (first) physical
\* request meets resp: requests counts the calls of requests.request.
MakeRequest(resp, st) ==
    IF resp.kind = "neterr"
    THEN [requests |-> 1, exc |-> "RequestException", error_logged |-> TRUE,
          remaining |-> st.remaining, reset |-> st.reset, now |-> st.now,
          slept |-> FALSE, wait |-> 0]
    ELSE LET h == HandleRateLimit(resp, st) IN
         [requests |-> 1,
          exc |-> IF h.exc # "none" THEN h.exc
                  ELSE IF resp.status >= 400 THEN "RequestException" ELSE "none",
          error_logged |-> h.exc = "none" /\ resp.status >= 400,
          remaining |-> h.remaining, reset |-> h.reset, now |-> h.now,
          slept |-> h.slept, wait |-> h.wait]

\* ----------------------------------------------------------- import_data
\* import_data going on with the document after a JSON error
ReadOutcomeLenient(f) ==
    CASE f = "missing"      -> "FileNotFoundError"
      [] f = "invalid_json" -> "loaded"
      [] f = "ok"           -> "loaded"

\* lines 13-15 and 28-33: open() and json.load()
ReadOutcome(f) ==
    CASE f = "missing"      -> "FileNotFoundError"
      [] f = "invalid_json" -> "JSONDecodeError"
      [] f = "ok"           -> "loaded"

\* import_data swallowing the exception of create_milestone and going on
\* to the issues
MilestoneOutcomeSwallow(ret) ==
    CASE ret = "raise" -> "issues"
      [] ret = "empty" -> "skip"
      [] ret = "noid"  -> "abort"
      [] ret = "full"  -> "issues"

\* lines 19-22: what follows the return of create_milestone
\* ("raise": it raised; otherwise the kind of body of response.json())
MilestoneOutcome(ret) ==
    CASE ret = "raise" -> "abort"
      [] ret = "empty" -> "skip"
      [] ret = "noid"  -> "abort"
      [] ret = "full"  -> "issues"

\* import_data reading the milestone's number instead of its id
MilestoneIdNumber(response) == response.number

\* line 22: milestone_id = milestone_response["id"]
MilestoneId(response) == response.id

\* import_data catching the exception of create_issue inside the loop
IssueOutcomeContinue(exc) == "next"

\* line 25 under the handler of line 34
IssueOutcome(exc) == IF exc # "none" THEN "abort" ELSE "next"

\* the milestone loop moves past milestone m (line 17), or ends (lines 26-27)
AfterMilestone(m) ==
    IF m < Len(data)
    THEN [pc |-> "milestone", mi |-> m + 1, ii |-> 0, result |-> "none", msgs |-> <<>>]
    ELSE [pc |-> "done", mi |-> m, ii |-> 0, result |-> "True",
          msgs |-> <<"info:Import process completed">>]

\* lines 28-36: the handler that catches exception e logs it and returns False
ErrorMessage(e) ==
    CASE e = "FileNotFoundError" -> "error:File not found"
      [] e = "JSONDecodeError"   -> "error:Invalid JSON format"
      [] OTHER                   -> "error:An error occurred during import process: " \o e

Aborted(e) == [pc |-> "done", mi |-> mi, ii |-> ii, result |-> "False",
               msgs |-> <<ErrorMessage(e)>>]

ApiLog(r) == IF r.error_logged THEN <<"error:API Request Error">> ELSE <<>>

Goto(c, pre) ==
    /\ pc' = c.pc
    /\ mi' = c.mi
    /\ ii' = c.ii
    /\ result' = c.result
    /\ logged' = logged \o pre \o c.msgs

SetClient(r) ==
    /\ rate_limit_remaining' = r.remaining
    /\ rate_limit_reset' = r.reset
    /\ now' = r.now

\* the record of a create_* call: which item, the milestone field it carried
\* (for create_milestone: the id the server answered), the status it met and
\* what it returned ("raise" when it raised)
Call(op, m, k, mid, resp, ret) ==
    [op |-> op, m |-> m, k |-> k, milestone |-> mid, status |-> resp.status, ret |-> ret]

\* the first response of a logical call is rate-limited: 403/429 with
\* remaining = 0 and a reset time in the future
RateLimited(resp, t) ==
    /\ resp.kind = "response"
    /\ resp.status \in {403, 429}
    /\ resp.remaining = IntHeader(0)
    /\ resp.reset.k = "int"
    /\ resp.reset.v > t

\* what the most recent logical call of _make_request did
LastCall(resp, r, t) ==
    [status |-> resp.status, rate_limited |-> RateLimited(resp, t), reset |-> resp.reset,
     requests |-> r.requests, slept |-> r.slept, wait |-> r.wait, exc |-> r.exc]

NoCall == [status |-> 0, rate_limited |-> FALSE, reset |-> Absent,
           requests |-> 0, slept |-> FALSE, wait |-> 0, exc |-> "none"]

\* ------------------------------------------------------------ AuthManager
NoToken == 0
Tokens == 1..MaxToken
MaybeToken == {NoToken} \cup Tokens

NoRefresh == [ret |-> "none", outcome |-> "none", before |-> <<NoToken, NoToken>>]
NoScript == [first |-> 0, refresh |-> "none", retry |-> 0]

\* an AuthManager that holds t as both tokens and a client built on t
AuthQuiet(t) ==
    /\ access_token = t
    /\ refresh_token = t
    /\ on_auth_success = FALSE
    /\ stored = <<t, t>>
    /\ invoked = <<>>
    /\ token = t
    /\ headers = t
    /\ last_refresh = NoRefresh
    /\ script = NoScript

\* delete_all_issues is not running
NoCursor == 0

DeleteIdle ==
    /\ del_pc = "idle"
    /\ srv_total = 0
    /\ cursor = NoCursor
    /\ all_issue_node_ids = <<>>
    /\ di = 0
    /\ list_queries = 0
    /\ del_failed = {}
    /\ del_slept = {}
    /\ variables_cursor = NoCursor
    /\ srv_null_cursor = FALSE

\* strings are sequences of characters; the two icons are one character each
Icons == {"org", "user"}
Logins == {<<"a">>, <<"b", "c">>}
RepoNames == {<<"r">>, <<"x", "y">>}

\* update_repo_dropdown: f"{icon} {owner}/{name}"
RepoLabel(icon, owner, name) == <<icon, " ">> \o owner \o <<"/">> \o name

RepoList == {RepoLabel(i, o, n) : i \in Icons, o \in Logins, n \in RepoNames}

\* what askopenfilename returns: a path, or "" when the dialog is cancelled
DialogPaths == {<<"d">>}
Cancelled == <<>>

\* the paths open() is given in the model; a file in the working directory
\* may have the name of a repository
AllPaths == DialogPaths \cup RepoNames

\* a file: absent, not JSON, or a JSON list of n milestones
DiskEntries ==
    {[file |-> "missing", n |-> 0], [file |-> "invalid_json", n |-> 0],
     [file |-> "ok", n |-> 0], [file |-> "ok", n |-> 1]}

NoImport == [called |-> FALSE, selection |-> <<>>, file_path |-> <<>>,
             repo_owner |-> <<>>, repo_name |-> <<>>, opened |-> <<>>,
             exc |-> "none", creates |-> <<>>, result |-> "none"]

\* MainWindow.__init__: nothing selected, the button disabled
MainWindowIdle ==
    /\ repo_selection = <<>>
    /\ import_button = "disabled"
    /\ disk = [p \in AllPaths |-> [file |-> "missing", n |-> 0]]
    /\ mw_import = NoImport

\* the threads that run setup_after_auth: Tk's main thread (Application.run)
\* and the request threads of the Flask server (AuthManager.callback)
MainThread == 0
AppThreads == {MainThread} \cup (1..MaxFlaskThreads)

NoInvocation == [pc |-> "idle", arg |-> 0]

\* Application.__init__: no setup has run
AppIdle ==
    /\ setup_completed = FALSE
    /\ data_importer = 0
    /\ installed = <<>>
    /\ inv = [th \in AppThreads |-> NoInvocation]
    /\ n_inv = 0

\* get_milestones_with_issues is not running
ExportIdle ==
    /\ exp_pc = "idle"
    /\ srv_issues = <<>>
    /\ milestones = <<>>
    /\ milestone_issues = <<>>
    /\ em = 0
    /\ fetched = 0
    /\ exp_reqs = <<>>
    /\ exp_result = "none"

\* no handler is running and the clear operation has not been called
NoClear == [called |-> FALSE, repo |-> "", confirmed |-> FALSE,
            exc |-> "none", phases |-> <<>>]

GuiIdle ==
    /\ stack = <<>>
    /\ label_ok = FALSE
    /\ last_clear = NoClear

\* data is what json.load() yields; import_data never reads it when the
\* file is missing or is not valid JSON.
Init ==
    /\ origin \in Origins
    /\ file \in IF origin = "export" THEN {"ok"} ELSE FileStates
    /\ data \in Documents
    /\ pc = "start"
    /\ mi = 0
    /\ ii = 0
    /\ milestone_id = None
    /\ result = "none"
    /\ calls = <<>>
    /\ logged = <<>>
    /\ rate_limit_remaining = None
    /\ rate_limit_reset = None
    /\ now = 0
    /\ last = NoCall
    /\ seen = NoSeen
    /\ srv_count = 0
    /\ AuthQuiet(1)
    /\ DeleteIdle
    /\ GuiIdle
    /\ ExportIdle
    /\ AppIdle
    /\ MainWindowIdle

ReadFile ==
    /\ pc = "start"
    /\ LET o == ReadOutcome(file) IN
       IF o = "loaded" THEN Goto(AfterMilestone(0), <<>>) ELSE Goto(Aborted(o), <<>>)
    /\ UNCHANGED <<file, data, milestone_id, calls, rate_limit_remaining,
                   rate_limit_reset, now, last, srv_count, seen, origin>>
    /\ UNCHANGED <<authVars, deleteVars, guiVars, exportVars, appVars, mwVars>>

CreateMilestone ==
    /\ pc = "milestone"
    /\ \E fields_ok \in FieldsOk(origin, "milestone") :
       IF ~fields_ok
       THEN /\ Goto(Aborted("TypeError"), <<>>)
            /\ UNCHANGED <<milestone_id, calls, rate_limit_remaining,
                           rate_limit_reset, now, last, srv_count, seen>>
       ELSE \E resp \in Responses(now), body \in Bodies :
            LET r        == MakeRequest(resp, ClientState)
                made     == resp.kind = "response" /\ resp.status < 400
                ret      == IF r.exc = "none" THEN body ELSE "raise"
                response == IF ret = "raise" THEN NoResponse
                            ELSE MilestoneResponse(body, srv_count + 1)
                out      == MilestoneOutcome(ret)
                e        == IF ret = "noid" THEN "KeyError" ELSE r.exc
            IN  /\ calls' = Append(calls, Call("create_milestone", mi, 0,
                                   response.id, resp, ret))
                /\ last' = LastCall(resp, r, now)
                /\ SetClient(r)
                /\ seen' = Seen(resp, seen)
                /\ srv_count' = IF made THEN srv_count + 1 ELSE srv_count
                /\ milestone_id' = IF out = "issues" THEN MilestoneId(response)
                                   ELSE milestone_id
                /\ CASE out = "abort"  -> Goto(Aborted(e), ApiLog(r))
                     [] out = "skip"   -> Goto(AfterMilestone(mi), <<>>)
                     [] out = "issues" ->
                          IF Len(data[mi].issues) = 0
                          THEN Goto(AfterMilestone(mi), <<>>)
                          ELSE Goto([pc |-> "issue", mi |-> mi, ii |-> 1,
                                     result |-> "none", msgs |-> <<>>], <<>>)
    /\ UNCHANGED <<file, data, origin>>
    /\ UNCHANGED <<authVars, deleteVars, guiVars, exportVars, appVars, mwVars>>

CreateIssue ==
    /\ pc = "issue"
    /\ \E fields_ok \in FieldsOk(origin, "issue") :
       IF ~fields_ok
       THEN /\ Goto(Aborted("TypeError"), <<>>)
            /\ UNCHANGED <<calls, rate_limit_remaining, rate_limit_reset, now, last, seen>>
       ELSE \E resp \in Responses(now) :
            LET r   == MakeRequest(resp, ClientState)
                ret == IF r.exc = "none" THEN "full" ELSE "raise"
                out == IssueOutcome(r.exc)
            IN  /\ calls' = Append(calls, Call("create_issue", mi, ii, milestone_id,
                                               resp, ret))
                /\ last' = LastCall(resp, r, now)
                /\ SetClient(r)
                /\ seen' = Seen(resp, seen)
                /\ CASE out = "abort" -> Goto(Aborted(r.exc), ApiLog(r))
                     [] out = "next"  ->
                          IF ii < Len(data[mi].issues)
                          THEN Goto([pc |-> "issue", mi |-> mi, ii |-> ii + 1,
                                     result |-> "none", msgs |-> <<>>], ApiLog(r))
                          ELSE Goto(AfterMilestone(mi), ApiLog(r))
    /\ UNCHANGED <<file, data, milestone_id, srv_count, origin>>
    /\ UNCHANGED <<authVars, deleteVars, guiVars, exportVars, appVars, mwVars>>

Next == ReadFile \/ CreateMilestone \/ CreateIssue

Spec == Init /\ [][Next]_vars

\* ================================================= AuthManager operations
\* the import is not running and the client has met no response yet
ImportIdle ==
    /\ file = "ok"
    /\ data = <<>>
    /\ pc = "idle"
    /\ mi = 0
    /\ ii = 0
    /\ milestone_id = None
    /\ result = "none"
    /\ calls = <<>>
    /\ logged = <<>>
    /\ srv_count = 0
    /\ origin = "file"

ClientFresh ==
    /\ rate_limit_remaining = None
    /\ rate_limit_reset = None
    /\ now = 0
    /\ last = NoCall
    /\ seen = NoSeen

\* AuthManager.__init__: load_stored_tokens() runs with no callback set
InitAuth ==
    /\ ImportIdle
    /\ ClientFresh
    /\ DeleteIdle
    /\ GuiIdle
    /\ ExportIdle
    /\ AppIdle
    /\ MainWindowIdle
    /\ stored \in MaybeToken \X MaybeToken
    /\ \E read_ok \in BOOLEAN :
           IF read_ok /\ stored[1] # NoToken /\ stored[2] # NoToken
           THEN access_token = stored[1] /\ refresh_token = stored[2]
           ELSE access_token = NoToken /\ refresh_token = NoToken
    /\ on_auth_success = FALSE
    /\ invoked = <<>>
    /\ token \in Tokens
    /\ headers = token
    /\ last_refresh = NoRefresh
    /\ script = NoScript

\* self.on_auth_success(self.access_token)
Invoke(t) == invoked' = Append(invoked, t)

\* AuthManager.load_stored_tokens
LoadStoredTokens ==
    /\ Len(invoked) < MaxInvocations
    /\ \E read_ok \in BOOLEAN :
           IF read_ok /\ stored[1] # NoToken /\ stored[2] # NoToken
           THEN /\ access_token' = stored[1]
                /\ refresh_token' = stored[2]
                /\ IF on_auth_success THEN Invoke(stored[1]) ELSE UNCHANGED invoked
           ELSE UNCHANGED <<access_token, refresh_token, invoked>>
    /\ UNCHANGED <<on_auth_success, stored, token, headers, last_refresh, script>>
    /\ UNCHANGED <<importVars, clientVars, deleteVars, guiVars, exportVars, appVars, mwVars>>

\* AuthManager.set_on_auth_success
SetOnAuthSuccess ==
    /\ Len(invoked) < MaxInvocations
    /\ on_auth_success' = TRUE
    /\ IF access_token # NoToken THEN Invoke(access_token) ELSE UNCHANGED invoked
    /\ UNCHANGED <<access_token, refresh_token, stored, token, headers, last_refresh, script>>
    /\ UNCHANGED <<importVars, clientVars, deleteVars, guiVars, exportVars, appVars, mwVars>>

\* what exchange_code_for_token does: it raises (HTTP or network error),
\* returns None (no access_token in the answer) or returns the answer
ExchangeOutcomes == {"raise", "none", "tokens"}

\* AuthManager.callback, the Flask view of the OAuth redirect
OAuthCallback ==
    /\ Len(invoked) < MaxInvocations
    /\ \E out \in ExchangeOutcomes, a \in Tokens, r \in MaybeToken, save_ok \in BOOLEAN :
           IF out = "tokens"
           THEN /\ access_token' = a
                /\ refresh_token' = r
                /\ stored' = IF save_ok THEN <<a, r>> ELSE stored
                /\ IF on_auth_success THEN Invoke(a) ELSE UNCHANGED invoked
           ELSE UNCHANGED <<access_token, refresh_token, stored, invoked>>
    /\ UNCHANGED <<on_auth_success, token, headers, last_refresh, script>>
    /\ UNCHANGED <<importVars, clientVars, deleteVars, guiVars, exportVars, appVars, mwVars>>

\* how the POST of refresh_access_token ends: network failure, HTTP error
\* status, a JSON answer without access_token, a JSON answer with tokens
RefreshOutcomes == {"neterr", "http_error", "no_token", "tokens"}

\* AuthManager.refresh_access_token on tokens acc/ref when the POST ends as
\* out, a and r being the tokens of the answer (r = NoToken: no refresh_token
\* key): what it returns ("raise": an exception leaves it) and the tokens after
RefreshAccessTokenResult(acc, ref, out, a, r) ==
    IF ref = NoToken
    THEN [ret |-> "False", outcome |-> "no_refresh_token",
          access_token |-> acc, refresh_token |-> ref]
    ELSE CASE out = "neterr" ->
                [ret |-> "raise", outcome |-> out, access_token |-> acc, refresh_token |-> ref]
           [] out = "http_error" ->
                [ret |-> "False", outcome |-> out, access_token |-> acc, refresh_token |-> ref]
           [] out = "no_token" ->
                [ret |-> "False", outcome |-> out, access_token |-> acc, refresh_token |-> ref]
           [] out = "tokens" ->
                [ret |-> "True", outcome |-> out, access_token |-> a,
                 refresh_token |-> IF r = NoToken THEN ref ELSE r]

RefreshAccessToken ==
    /\ \E out \in RefreshOutcomes, a \in Tokens, r \in MaybeToken, save_ok \in BOOLEAN :
           LET res == RefreshAccessTokenResult(access_token, refresh_token, out, a, r) IN
           /\ access_token' = res.access_token
           /\ refresh_token' = res.refresh_token
           /\ stored' = IF res.ret = "True" /\ save_ok
                        THEN <<res.access_token, res.refresh_token>> ELSE stored
           /\ last_refresh' = [ret |-> res.ret, outcome |-> res.outcome,
                               before |-> <<access_token, refresh_token>>]
    /\ UNCHANGED <<on_auth_success, invoked, token, headers, script>>
    /\ UNCHANGED <<importVars, clientVars, deleteVars, guiVars, exportVars, appVars, mwVars>>

NextAuth == LoadStoredTokens \/ SetOnAuthSuccess \/ OAuthCallback \/ RefreshAccessToken

SpecAuth == InitAuth /\ [][NextAuth]_vars

\* ===================================================== delete_all_issues
Min(a, b) == IF a <= b THEN a ELSE b

\* how a GraphQL POST ends: a JSON answer with data, a JSON answer with
\* "errors", a body that is not JSON, an HTTP error status, a network failure
GraphqlKinds == {"ok", "graphql_errors", "bad_json", "http_error"}

GraphqlResponses(t) ==
    {[kind |-> "neterr", remaining |-> Absent, reset |-> Absent]} \cup
    [kind : GraphqlKinds, remaining : RemainingHeaders, reset : ResetHeaders(t)]

\* the page of the issues connection after cursor cur in a repository of M
\* issues named 1..M; endCursor names the last node of the page
ServerPage(cur, M) ==
    LET n == Min(PageSize, M - cur) IN
    [nodes       |-> [j \in 1..n |-> cur + j],
     hasNextPage |-> cur + n < M,
     endCursor   |-> IF n > 0 THEN cur + n ELSE NoCursor]

\* pages the connection has for M issues (an empty repository has one)
PagesOf(M) == IF M = 0 THEN 1 ELSE (M + PageSize - 1) \div PageSize

\* delete_issues_individually stops at the first mutation that fails
DeleteStepStopOnFailure(kind) ==
    CASE kind = "ok"             -> [log |-> "none",    slept |-> TRUE,  go |-> "next"]
      [] kind = "graphql_errors" -> [log |-> "warning", slept |-> TRUE,  go |-> "raise"]
      [] OTHER                   -> [log |-> "error",   slept |-> FALSE, go |-> "raise"]

\* one turn of the loop of delete_issues_individually on an answer of this
\* kind: what it logs, whether it pauses, where it goes. requests' JSON
\* decoding error is a RequestException, as raise_for_status' HTTPError and
\* the network failures are.
DeleteStep(kind) ==
    CASE kind = "ok"             -> [log |-> "none",    slept |-> TRUE,  go |-> "next"]
      [] kind = "graphql_errors" -> [log |-> "warning", slept |-> TRUE,  go |-> "next"]
      [] OTHER                   -> [log |-> "error",   slept |-> FALSE, go |-> "next"]

\* requests.post straight to the GraphQL endpoint: _handle_rate_limit is
\* not on this path, the client's rate-limit state is left alone
GraphqlPost(resp) ==
    /\ seen' = Seen(resp, seen)
    /\ UNCHANGED <<rate_limit_remaining, rate_limit_reset, now, last>>

\* delete_all_issues going on to the mutations with what it has collected
\* when a list query fails
AfterListDeleteCollected(kind, hasNextPage, n) ==
    IF kind # "ok" THEN (IF n = 0 THEN "failed" ELSE "deleting")
    ELSE IF hasNextPage THEN "listing"
    ELSE IF n = 0 THEN "done" ELSE "deleting"

\* where delete_all_issues goes after a list query answered as kind, n being
\* the node ids collected so far: any failure raises to the handler of line
\* 343, the loop goes on while hasNextPage, the mutations follow
AfterList(kind, hasNextPage, n) ==
    IF kind # "ok" THEN "failed"
    ELSE IF hasNextPage THEN "listing"
    ELSE IF n = 0 THEN "done" ELSE "deleting"

\* a server whose pages follow the connection contract
InitDelete ==
    /\ ImportIdle
    /\ ClientFresh
    /\ \E t \in Tokens : AuthQuiet(t)
    /\ GuiIdle
    /\ ExportIdle
    /\ AppIdle
    /\ MainWindowIdle
    /\ del_pc = "idle"
    /\ srv_total \in 0..MaxRepoIssues
    /\ cursor = NoCursor
    /\ all_issue_node_ids = <<>>
    /\ di = 0
    /\ list_queries = 0
    /\ del_failed = {}
    /\ del_slept = {}
    /\ variables_cursor = NoCursor
    /\ srv_null_cursor = FALSE

\* delete_all_issues is called
DeleteAllIssues ==
    /\ del_pc = "idle"
    /\ del_pc' = "listing"
    /\ UNCHANGED <<srv_total, cursor, all_issue_node_ids, di, list_queries, del_failed,
                   del_slept, variables_cursor, srv_null_cursor>>
    /\ UNCHANGED <<importVars, clientVars, authVars, guiVars, exportVars, appVars, mwVars>>

\* one turn of the while loop: "if cursor:" puts the cursor into the
\* variables, the list query is posted, the list is extended
ListPage ==
    /\ del_pc = "listing"
    /\ list_queries < MaxListQueries
    /\ \E resp \in GraphqlResponses(now), null \in {FALSE, srv_null_cursor} :
           LET sent == IF cursor # NoCursor THEN cursor ELSE variables_cursor
               page == ServerPage(sent, srv_total)
               n    == Len(all_issue_node_ids) +
                       (IF resp.kind = "ok" THEN Len(page.nodes) ELSE 0)
           IN  /\ GraphqlPost(resp)
               /\ variables_cursor' = sent
               /\ list_queries' = list_queries + 1
               /\ del_pc' = AfterList(resp.kind, page.hasNextPage, n)
               /\ IF resp.kind = "ok"
                  THEN /\ all_issue_node_ids' = all_issue_node_ids \o page.nodes
                       /\ cursor' = IF null /\ page.hasNextPage THEN NoCursor
                                    ELSE page.endCursor
                  ELSE UNCHANGED <<all_issue_node_ids, cursor>>
    /\ UNCHANGED <<srv_total, di, del_failed, del_slept, srv_null_cursor>>
    /\ UNCHANGED <<importVars, authVars, guiVars, exportVars, appVars, mwVars>>

\* one turn of the for loop of delete_issues_individually
DeleteIssue ==
    /\ del_pc = "deleting"
    /\ \E resp \in GraphqlResponses(now) :
           LET step    == DeleteStep(resp.kind)
               node_id == all_issue_node_ids[di + 1]
           IN  /\ GraphqlPost(resp)
               /\ di' = di + 1
               /\ del_failed' = IF resp.kind = "ok" THEN del_failed
                                ELSE del_failed \cup {node_id}
               /\ del_slept' = IF step.slept THEN del_slept \cup {node_id}
                               ELSE del_slept
               /\ del_pc' = IF step.go = "raise" THEN "failed"
                            ELSE IF di' = Len(all_issue_node_ids) THEN "done"
                            ELSE "deleting"
    /\ UNCHANGED <<srv_total, cursor, all_issue_node_ids, list_queries,
                   variables_cursor, srv_null_cursor>>
    /\ UNCHANGED <<importVars, authVars, guiVars, exportVars, appVars, mwVars>>

NextDelete == DeleteAllIssues \/ ListPage \/ DeleteIssue

SpecDelete == InitDelete /\ [][NextDelete]_vars

\* a server that may answer hasNextPage = true with a null endCursor
InitCursor ==
    /\ ImportIdle
    /\ ClientFresh
    /\ \E t \in Tokens : AuthQuiet(t)
    /\ GuiIdle
    /\ ExportIdle
    /\ AppIdle
    /\ MainWindowIdle
    /\ del_pc = "idle"
    /\ srv_total \in 0..MaxRepoIssues
    /\ cursor = NoCursor
    /\ all_issue_node_ids = <<>>
    /\ di = 0
    /\ list_queries = 0
    /\ del_failed = {}
    /\ del_slept = {}
    /\ variables_cursor = NoCursor
    /\ srv_null_cursor = TRUE

SpecCursor == InitCursor /\ [][NextDelete]_vars

\* ============================================ get_milestones_with_issues
\* what the repository holds: for each milestone (numbered by position) the
\* comment count of each of its issues (named by position)
Repositories ==
    UNION {[1..n -> SeqsUpTo({0, 1}, MaxIssues)] : n \in 0..MaxMilestones}

\* the answers the export meets: 200, an HTTP error, a network failure
ExportResponses ==
    {NetworkFailure} \cup
    [kind : {"response"}, status : {200, 403},
     remaining : {IntHeader(50)}, reset : {Absent}]

\* the page of a listing of n items that starts after the first `from`
\* items: the positions of its items, and whether the response carries a
\* 'next' link
ListingPage(from, n) ==
    LET k == Min(ExportPerPage, n - from) IN
    [items |-> [j \in 1..k |-> from + j], next |-> from + k < n]

\* the loops taking the first page only
FollowNextFirstPageOnly(page) == FALSE

\* "if 'next' in response.links": the loop goes on with the next page
FollowNext(page) == page.next

\* a comments request for every issue
NeedsCommentsAlways(count) == TRUE

\* "if issue['comments'] > 0"
NeedsComments(count) == count > 0

\* a failed request ends the export with what has been assembled
ExportEndReturnPartial(exc) == "returned"

\* how the call ends when a request raised exc: the handler of line 204
\* raises Exception
ExportEnd(exc) == IF exc = "none" THEN "returned" ELSE "raise"

Request(op, m, k) == [op |-> op, m |-> m, k |-> k]

\* the milestone object as received, before and after line 199
MilestoneObject(n) == [number |-> n, has_issues |-> FALSE, issues |-> <<>>]

\* where the export goes once the issues received (got) for the current
\* milestone are formatted up to position done: the next issue, the next
\* page, or line 199
AfterIssue(done, got, more) ==
    IF done < got THEN "format"
    ELSE IF more THEN "issues"
    ELSE "close"

InitExport ==
    /\ ImportIdle
    /\ ClientFresh
    /\ DeleteIdle
    /\ GuiIdle
    /\ \E t \in Tokens : AuthQuiet(t)
    /\ AppIdle
    /\ MainWindowIdle
    /\ exp_pc = "idle"
    /\ srv_issues \in Repositories
    /\ milestones = <<>>
    /\ milestone_issues = <<>>
    /\ em = 0
    /\ fetched = 0
    /\ exp_reqs = <<>>
    /\ exp_result = "none"

\* get_milestones_with_issues is called
GetMilestonesWithIssues ==
    /\ exp_pc = "idle"
    /\ exp_pc' = "milestones"
    /\ UNCHANGED <<srv_issues, milestones, milestone_issues, em, fetched, exp_reqs,
                   exp_result>>
    /\ UNCHANGED <<importVars, clientVars, authVars, deleteVars, guiVars, appVars, mwVars>>

\* a request of the export through _make_request
ExportRequest(resp, r) ==
    /\ last' = LastCall(resp, r, now)
    /\ SetClient(r)
    /\ seen' = Seen(resp, seen)

\* the export ends: it returns milestones, or the handler raises
ExportStop(exc) ==
    /\ exp_pc' = "done"
    /\ exp_result' = ExportEnd(exc)

\* one turn of the loop of lines 131-140: a page of milestones
FetchMilestones ==
    /\ exp_pc = "milestones"
    /\ \E resp \in ExportResponses :
           LET r    == MakeRequest(resp, ClientState)
               page == ListingPage(Len(milestones), Len(srv_issues))
               all  == milestones \o [j \in 1..Len(page.items) |->
                                          MilestoneObject(page.items[j])]
           IN  /\ ExportRequest(resp, r)
               /\ exp_reqs' = Append(exp_reqs, Request("milestones", 0, Len(milestones)))
               /\ IF r.exc # "none"
                  THEN /\ ExportStop(r.exc)
                       /\ UNCHANGED <<milestones, em>>
                  ELSE /\ milestones' = all
                       /\ IF FollowNext(page)
                          THEN UNCHANGED <<exp_pc, exp_result, em>>
                          ELSE IF Len(all) = 0
                          THEN ExportStop("none") /\ UNCHANGED em
                          ELSE /\ exp_pc' = "issues"
                               /\ em' = 1
                               /\ UNCHANGED exp_result
    /\ UNCHANGED <<srv_issues, milestone_issues, fetched>>
    /\ UNCHANGED <<importVars, authVars, deleteVars, guiVars, appVars, mwVars>>

\* one turn of the loop of lines 158-196 up to the response: a page of the
\* issues of the current milestone
FetchIssues ==
    /\ exp_pc = "issues"
    /\ \E resp \in ExportResponses :
           LET r     == MakeRequest(resp, ClientState)
               total == Len(srv_issues[milestones[em].number])
               page  == ListingPage(fetched, total)
               got   == fetched + Len(page.items)
           IN  /\ ExportRequest(resp, r)
               /\ exp_reqs' = Append(exp_reqs, Request("issues", em, fetched))
               /\ IF r.exc # "none"
                  THEN /\ ExportStop(r.exc)
                       /\ UNCHANGED fetched
                  ELSE /\ fetched' = got
                       /\ exp_pc' = AfterIssue(Len(milestone_issues), got,
                                               FollowNext(page))
                       /\ UNCHANGED exp_result
    /\ UNCHANGED <<srv_issues, milestones, milestone_issues, em>>
    /\ UNCHANGED <<importVars, authVars, deleteVars, guiVars, appVars, mwVars>>

\* lines 163-189 for one issue of the page: formatted_issue, the comments
\* request when the issue has comments, the append
FormatIssue ==
    /\ exp_pc = "format"
    /\ LET m     == milestones[em].number
           j     == Len(milestone_issues) + 1
           total == Len(srv_issues[m])
           start == fetched - (((fetched - 1) % ExportPerPage) + 1)
           more  == FollowNext(ListingPage(start, total))
       IN  IF NeedsComments(srv_issues[m][j])
           THEN \E resp \in ExportResponses :
                LET r == MakeRequest(resp, ClientState) IN
                /\ ExportRequest(resp, r)
                /\ exp_reqs' = Append(exp_reqs, Request("comments", em, j))
                /\ IF r.exc # "none"
                   THEN /\ ExportStop(r.exc)
                        /\ UNCHANGED milestone_issues
                   ELSE /\ milestone_issues' = Append(milestone_issues, j)
                        /\ exp_pc' = AfterIssue(j, fetched, more)
                        /\ UNCHANGED exp_result
           ELSE /\ milestone_issues' = Append(milestone_issues, j)
                /\ exp_pc' = AfterIssue(j, fetched, more)
                /\ UNCHANGED <<exp_reqs, exp_result, clientVars>>
    /\ UNCHANGED <<srv_issues, milestones, em, fetched>>
    /\ UNCHANGED <<importVars, authVars, deleteVars, guiVars, appVars, mwVars>>

\* line 199, then the next milestone or lines 201-202
CloseMilestone ==
    /\ exp_pc = "close"
    /\ milestones' = [milestones EXCEPT ![em] =
                          [number |-> @.number, has_issues |-> TRUE,
                           issues |-> milestone_issues]]
    /\ milestone_issues' = <<>>
    /\ fetched' = 0
    /\ IF em < Len(milestones)
       THEN /\ em' = em + 1
            /\ exp_pc' = "issues"
            /\ UNCHANGED exp_result
       ELSE /\ ExportStop("none")
            /\ UNCHANGED em
    /\ UNCHANGED <<srv_issues, exp_reqs>>
    /\ UNCHANGED <<importVars, clientVars, authVars, deleteVars, guiVars, appVars, mwVars>>

NextExport ==
    \/ GetMilestonesWithIssues
    \/ FetchMilestones
    \/ FetchIssues
    \/ FormatIssue
    \/ CloseMilestone

SpecExport == InitExport /\ [][NextExport]_vars

\* ============================================ Application.setup_after_auth
\* the answers GET /user gives to authenticate()
AuthenticateResponses ==
    {NetworkFailure} \cup
    [kind : {"response"}, status : {200, 401},
     remaining : {IntHeader(50)}, reset : {Absent}]

\* no GitHubClient has been built yet; run() has set the callback
InitApp ==
    /\ ImportIdle
    /\ ClientFresh
    /\ DeleteIdle
    /\ GuiIdle
    /\ ExportIdle
    /\ AppIdle
    /\ MainWindowIdle
    /\ \E t \in Tokens :
           /\ access_token = t
           /\ refresh_token = t
           /\ stored = <<t, t>>
    /\ on_auth_success = TRUE
    /\ invoked = <<>>
    /\ token = NoToken
    /\ headers = NoToken
    /\ last_refresh = NoRefresh
    /\ script = NoScript

\* setup_after_auth is entered with a token: line 46 reads setup_completed.
\* The main thread invokes it from run() and returns from it before
\* start_oauth_flow starts the Flask server; every OAuth callback invokes it
\* on its own request thread (Flask's server is threaded).
SetupBegin ==
    /\ n_inv < MaxInvocations
    /\ \E th \in AppThreads, tok \in Tokens :
           /\ inv[th].pc = "idle"
           /\ th = MainThread => n_inv = 0
           /\ th # MainThread => inv[MainThread].pc = "idle"
           /\ inv' = IF setup_completed THEN inv
                     ELSE [inv EXCEPT ![th] = [pc |-> "construct", arg |-> tok]]
    /\ n_inv' = n_inv + 1
    /\ UNCHANGED <<setup_completed, data_importer, installed>>
    /\ UNCHANGED <<importVars, clientVars, authVars, deleteVars, guiVars, exportVars, mwVars>>

\* line 51: self.github_client = GitHubClient(access_token, ...)
SetupConstruct ==
    /\ \E th \in AppThreads :
           /\ inv[th].pc = "construct"
           /\ token' = inv[th].arg
           /\ headers' = inv[th].arg
           /\ inv' = [inv EXCEPT ![th].pc = "authenticate"]
    /\ rate_limit_remaining' = None
    /\ rate_limit_reset' = None
    /\ UNCHANGED <<now, last, seen>>
    /\ UNCHANGED <<access_token, refresh_token, on_auth_success, stored, invoked,
                   last_refresh, script>>
    /\ UNCHANGED <<setup_completed, data_importer, installed, n_inv>>
    /\ UNCHANGED <<importVars, deleteVars, guiVars, exportVars, mwVars>>

\* lines 54-104: self.github_client.authenticate() on the client the
\* attribute holds now; on success setup_completed, data_importer, ImportGUI
SetupAuthenticate ==
    /\ \E th \in AppThreads, resp \in AuthenticateResponses :
           LET r  == MakeRequest(resp, ClientState)
               ok == r.exc = "none" /\ resp.status = 200
           IN  /\ inv[th].pc = "authenticate"
               /\ last' = LastCall(resp, r, now)
               /\ SetClient(r)
               /\ seen' = Seen(resp, seen)
               /\ inv' = [inv EXCEPT ![th] = NoInvocation]
               /\ setup_completed' = (setup_completed \/ ok)
               /\ data_importer' = IF ok THEN token ELSE data_importer
               /\ installed' = IF ok THEN Append(installed, token) ELSE installed
    /\ UNCHANGED n_inv
    /\ UNCHANGED <<importVars, authVars, deleteVars, guiVars, exportVars, mwVars>>

NextApp == SetupBegin \/ SetupConstruct \/ SetupAuthenticate

SpecApp == InitApp /\ [][NextApp]_vars

\* ============================================ MainWindow.import_milestones
\* str.split("/")
RECURSIVE Split(_)
Split(s) ==
    LET idx == {i \in 1..Len(s) : s[i] = "/"}
    IN  IF idx = {} THEN <<s>>
        ELSE LET i == CHOOSE j \in idx : \A k \in idx : j <= k
             IN  <<SubSeq(s, 1, i - 1)>> \o Split(SubSeq(s, i + 1, Len(s)))

\* str.strip()
RECURSIVE Strip(_)
Strip(s) ==
    IF s = <<>> THEN s
    ELSE IF s[1] = " " THEN Strip(Tail(s))
    ELSE IF s[Len(s)] = " " THEN Strip(SubSeq(s, 1, Len(s) - 1))
    ELSE s

\* s[2:]
FromSecond(s) == SubSeq(s, 3, Len(s))

\* open(import_file) and json.load
OpenOutcome(d, import_file) ==
    IF import_file \in DOMAIN d THEN ReadOutcome(d[import_file].file)
    ELSE "FileNotFoundError"

\* DataImporter.import_data(repo_owner, repo_name, import_file) on a
\* DataImporter whose github_client is github_client
import_data(github_client, d, repo_owner, repo_name, import_file) ==
    LET o == OpenOutcome(d, import_file)
        n == IF o = "loaded" THEN d[import_file].n ELSE 0
        e == IF o # "loaded" THEN o
             ELSE IF n > 0 /\ github_client = None THEN "AttributeError"
             ELSE "none"
    IN  [opened  |-> import_file,
         exc     |-> e,
         creates |-> IF e = "none"
                     THEN [k \in 1..n |-> [owner |-> repo_owner, repo |-> repo_name]]
                     ELSE <<>>,
         result  |-> IF e = "none" THEN "True" ELSE "False"]

\* line 1488: self.data_importer.import_data(file_path, user_name, repo_name),
\* positional, against def import_data(self, repo_owner, repo_name, import_file)
ImportDataCall(file_path, user_name, repo_name) ==
    [repo_owner |-> file_path, repo_name |-> user_name, import_file |-> repo_name]

InitMainWindow ==
    /\ ImportIdle
    /\ ClientFresh
    /\ DeleteIdle
    /\ GuiIdle
    /\ \E t \in Tokens : AuthQuiet(t)
    /\ ExportIdle
    /\ AppIdle
    /\ repo_selection = <<>>
    /\ import_button = "disabled"
    /\ disk \in [AllPaths -> DiskEntries]
    /\ mw_import = NoImport

\* a repository is picked in the dropdown: update_repo_dropdown_command
\* enables the import button
SelectRepository ==
    /\ \E label \in RepoList : repo_selection' = label
    /\ import_button' = "normal"
    /\ UNCHANGED <<disk, mw_import>>
    /\ UNCHANGED <<importVars, clientVars, authVars, deleteVars, guiVars, exportVars, appVars>>

\* the import button is pressed: import_milestones with the DataImporter
\* MainWindow.__init__ built around github_client = None
ImportMilestones ==
    /\ import_button = "normal"
    /\ \E file_path \in DialogPaths \cup {Cancelled} :
           LET selected_repo == Split(repo_selection)
               user_name     == Strip(FromSecond(selected_repo[1]))
               repo_name     == Strip(selected_repo[2])
               call          == ImportDataCall(file_path, user_name, repo_name)
               r             == import_data(None, disk, call.repo_owner,
                                            call.repo_name, call.import_file)
           IN  IF Len(selected_repo) < 2
               THEN mw_import' = [NoImport EXCEPT !.selection = repo_selection,
                                                  !.exc = "IndexError"]
               ELSE mw_import' = [called |-> TRUE, selection |-> repo_selection,
                                  file_path |-> file_path,
                                  repo_owner |-> call.repo_owner,
                                  repo_name |-> call.repo_name,
                                  opened |-> r.opened, exc |-> r.exc,
                                  creates |-> r.creates, result |-> r.result]
    /\ import_button' = IF Len(Split(repo_selection)) < 2 THEN import_button
                        ELSE "disabled"
    /\ UNCHANGED <<repo_selection, disk>>
    /\ UNCHANGED <<importVars, clientVars, authVars, deleteVars, guiVars, exportVars, appVars>>

NextMainWindow == SelectRepository \/ ImportMilestones

SpecMainWindow == InitMainWindow /\ [][NextMainWindow]_vars

\* ========================================================= GUI handlers
\* the buttons: ImportGUI's import, export and clear, MainWindow's import
ImportGuiHandlers == {"import", "export", "clear"}
Handlers == ImportGuiHandlers \cup {"mw_import"}

\* what repo_dropdown.get() yields: nothing (or blanks), a name without a
\* slash, owner/repo, a name with two slashes
RepoStrings == {"", "name", "owner/repo", "a/b/c"}

Frame(h) == [h |-> h, pc |-> "start", repo |-> "", confirmed |-> FALSE]

Top == stack[Len(stack)]
Pop == SubSeq(stack, 1, Len(stack) - 1)
SetTop(f) == [stack EXCEPT ![Len(stack)] = f]

\* handlers dispatched from worker threads: a button starts its handler
\* whatever the others are doing
CanDispatchFromThreads(s) == TRUE

\* Tk runs a command when the main thread is in the event loop: idle in
\* mainloop(), inside status_label.update(), or inside MainWindow's file
\* dialog on its own hidden root
CanDispatch(s) ==
    IF s = <<>> THEN TRUE ELSE s[Len(s)].pc \in {"update1", "update2", "dialog"}

\* the checks of an ImportGUI handler before its work begins, the
\* confirmation dialog left out
RepoGate(repo) == IF repo = "owner/repo" THEN "proceed" ELSE "return"

\* clear_milestones_and_issues going on whatever askokcancel returns
ClearGateUnconfirmed(repo, confirmed) == RepoGate(repo)

\* clear_milestones_and_issues: the repository checks, then askokcancel
ClearGate(repo, confirmed) ==
    IF RepoGate(repo) = "proceed" /\ confirmed THEN "proceed" ELSE "return"

\* what the call into DataImporter does: import_milestones,
\* export_milestones and clear_all_milestones_and_issues are not attributes
\* of DataImporter (AttributeError, no phase runs); MainWindow calls
\* import_data, which returns
BulkOutcome(h) ==
    IF h \in ImportGuiHandlers
    THEN [exc |-> "AttributeError", phases |-> <<>>]
    ELSE [exc |-> "none", phases |-> <<>>]

InitGui ==
    /\ ImportIdle
    /\ ClientFresh
    /\ DeleteIdle
    /\ \E t \in Tokens : AuthQuiet(t)
    /\ ExportIdle
    /\ AppIdle
    /\ MainWindowIdle
    /\ stack = <<>>
    /\ label_ok \in BOOLEAN
    /\ last_clear = NoClear

\* a button is pressed and Tk starts its command
Dispatch ==
    /\ CanDispatch(stack)
    /\ Len(stack) < MaxNesting
    /\ \E h \in Handlers : stack' = Append(stack, Frame(h))
    /\ UNCHANGED <<label_ok, last_clear>>
    /\ UNCHANGED <<importVars, clientVars, authVars, deleteVars, exportVars, appVars, mwVars>>

\* the head of an ImportGUI handler: file chosen (import), repository
\* string checked, confirmation asked (clear)
Validate ==
    /\ stack # <<>>
    /\ Top.pc = "start"
    /\ Top.h \in ImportGuiHandlers
    /\ \E picked \in BOOLEAN, repo \in RepoStrings, confirmed \in BOOLEAN :
           LET gate == CASE Top.h = "clear"  -> ClearGate(repo, confirmed)
                         [] Top.h = "import" -> IF picked THEN RepoGate(repo) ELSE "return"
                         [] Top.h = "export" -> RepoGate(repo)
           IN  stack' = IF gate = "proceed"
                        THEN SetTop([h |-> Top.h, pc |-> "status1", repo |-> repo,
                                     confirmed |-> Top.h = "clear" /\ confirmed])
                        ELSE Pop
    /\ UNCHANGED <<label_ok, last_clear>>
    /\ UNCHANGED <<importVars, clientVars, authVars, deleteVars, exportVars, appVars, mwVars>>

\* the head of MainWindow.import_milestones: the selection is split
\* (IndexError without a slash), then the file dialog opens
MainWindowStart ==
    /\ stack # <<>>
    /\ Top.pc = "start"
    /\ Top.h = "mw_import"
    /\ \E repo \in RepoStrings :
           stack' = IF repo \in {"owner/repo", "a/b/c"}
                    THEN SetTop([h |-> Top.h, pc |-> "dialog", repo |-> repo,
                                 confirmed |-> FALSE])
                    ELSE Pop
    /\ UNCHANGED <<label_ok, last_clear>>
    /\ UNCHANGED <<importVars, clientVars, authVars, deleteVars, exportVars, appVars, mwVars>>

\* update_status: status_label.config(...) raises when status_label is not
\* a widget; in the try block of clear the handler of line 49 takes over,
\* elsewhere the exception leaves the command
UpdateStatus ==
    /\ stack # <<>>
    /\ Top.pc \in {"status1", "except"}
    /\ stack' = IF label_ok
                THEN SetTop([Top EXCEPT !.pc = IF Top.pc = "status1" THEN "update1"
                                                ELSE "update2"])
                ELSE IF Top.pc = "status1" /\ Top.h = "clear"
                THEN SetTop([Top EXCEPT !.pc = "except"])
                ELSE Pop
    /\ UNCHANGED <<label_ok, last_clear>>
    /\ UNCHANGED <<importVars, clientVars, authVars, deleteVars, exportVars, appVars, mwVars>>

\* status_label.update() or the file dialog returns
Resume ==
    /\ stack # <<>>
    /\ Top.pc \in {"update1", "update2", "dialog"}
    /\ stack' = IF Top.pc = "update2" THEN Pop
                ELSE SetTop([Top EXCEPT !.pc = "call"])
    /\ UNCHANGED <<label_ok, last_clear>>
    /\ UNCHANGED <<importVars, clientVars, authVars, deleteVars, exportVars, appVars, mwVars>>

\* the handler calls into DataImporter
BulkCall ==
    /\ stack # <<>>
    /\ Top.pc = "call"
    /\ stack' = SetTop([Top EXCEPT !.pc = "in_call"])
    /\ last_clear' = IF Top.h = "clear"
                     THEN [called |-> TRUE, repo |-> Top.repo, confirmed |-> Top.confirmed,
                           exc |-> "running", phases |-> <<>>]
                     ELSE last_clear
    /\ UNCHANGED label_ok
    /\ UNCHANGED <<importVars, clientVars, authVars, deleteVars, exportVars, appVars, mwVars>>

\* the call into DataImporter ends
BulkReturn ==
    /\ stack # <<>>
    /\ Top.pc = "in_call"
    /\ LET o == BulkOutcome(Top.h) IN
       /\ stack' = IF o.exc = "none" THEN Pop
                    ELSE SetTop([Top EXCEPT !.pc = "except"])
       /\ last_clear' = IF Top.h = "clear"
                        THEN [last_clear EXCEPT !.exc = o.exc, !.phases = o.phases]
                        ELSE last_clear
    /\ UNCHANGED label_ok
    /\ UNCHANGED <<importVars, clientVars, authVars, deleteVars, exportVars, appVars, mwVars>>

NextGui ==
    \/ Dispatch
    \/ Validate
    \/ MainWindowStart
    \/ UpdateStatus
    \/ Resume
    \/ BulkCall
    \/ BulkReturn

SpecGui == InitGui /\ [][NextGui]_vars

\* ============================================ one logical call of the client
\* a client built on token t, whose AuthManager holds t and a refresh token
InitClient ==
    /\ ImportIdle
    /\ ClientFresh
    /\ DeleteIdle
    /\ GuiIdle
    /\ ExportIdle
    /\ AppIdle
    /\ MainWindowIdle
    /\ \E t \in Tokens : AuthQuiet(t)

\* a logical call through _make_request (get_user_repos, authenticate, ...):
\* resp is the first response; refresh and retry are what the server would
\* answer to a token refresh and to the request reissued after it.
\* _make_request reads neither AuthManager nor self.token.
ClientCall ==
    /\ \E resp \in Responses(now) :
       \E refresh \in IF resp.status = 401 THEN RefreshOutcomes ELSE {"none"},
          retry \in IF resp.status = 401 THEN {201, 401} ELSE {0} :
           LET r == MakeRequest(resp, ClientState) IN
           /\ last' = LastCall(resp, r, now)
           /\ SetClient(r)
           /\ seen' = Seen(resp, seen)
           /\ script' = [first |-> resp.status, refresh |-> refresh, retry |-> retry]
    /\ UNCHANGED <<access_token, refresh_token, on_auth_success, stored, invoked,
                   token, headers, last_refresh>>
    /\ UNCHANGED <<importVars, deleteVars, guiVars, exportVars, appVars, mwVars>>

NextClient == ClientCall

SpecClient == InitClient /\ [][NextClient]_vars

\* ================================================================ claims
IsMilestoneCall(c) == c.op = "create_milestone"
IsIssueCall(c) == c.op = "create_issue"

\* create_milestone returned (did not raise) a response that passes the
\* check of line 21
Succeeded(c) == IsMilestoneCall(c) /\ c.ret \notin {"raise", "empty"}

Failed(c) == c.ret = "raise"

LoggedSet == {logged[n] : n \in DOMAIN logged}

\* every item of the document fitted its dataclass (no TypeError ended the run)
WellFormedRun == ErrorMessage("TypeError") \notin LoggedSet

IssuesOf(m) == data[m].issues

\* C1: a create_issue call for an issue of milestone m is issued only after
\* the create_milestone call for m has returned successfully; none is ever
\* issued for a milestone whose creation has not succeeded.
C1_MilestoneBeforeItsIssues ==
    \A n \in DOMAIN calls :
        IsIssueCall(calls[n]) =>
            \E p \in 1..(n - 1) : Succeeded(calls[p]) /\ calls[p].m = calls[n].m

C1_Witness ==
    \E n \in DOMAIN calls :
        /\ IsIssueCall(calls[n])
        /\ calls[n].m = 2
        /\ \E p \in 1..(n - 1) : IsMilestoneCall(calls[p]) /\ calls[p].m = 1 /\ calls[p].ret = "empty"

\* C2: if create_milestone fails for milestone i, no create_issue call is
\* made for an issue of milestone i and the import goes on to
\* create_milestone for milestone i+1 when there is one.
C2_FailedMilestoneSkippedImportContinues ==
    \A n \in DOMAIN calls :
        (IsMilestoneCall(calls[n]) /\ Failed(calls[n])) =>
            /\ \A q \in DOMAIN calls : IsIssueCall(calls[q]) => calls[q].m # calls[n].m
            /\ (pc = "done" /\ WellFormedRun /\ calls[n].m < Len(data)) =>
                   \E q \in (n + 1)..Len(calls) :
                       IsMilestoneCall(calls[q]) /\ calls[q].m = calls[n].m + 1

\* C3: a finished import of a document with N milestones has issued exactly
\* N create_milestone calls, in document order, and for each milestone whose
\* creation succeeded exactly one create_issue call per issue, in issue order,
\* whatever the outcome of the individual calls.
C3_ExactCallsInOrder ==
    (pc = "done" /\ file = "ok" /\ WellFormedRun) =>
        LET ms == SelectSeq(calls, IsMilestoneCall) IN
        /\ Len(ms) = Len(data)
        /\ \A i \in DOMAIN ms : ms[i].m = i
        /\ \A i \in DOMAIN ms :
               Succeeded(ms[i]) =>
                   LET IsIssueOfI(c) == IsIssueCall(c) /\ c.m = i
                       is == SelectSeq(calls, IsIssueOfI)
                   IN  /\ Len(is) = Len(IssuesOf(i))
                       /\ \A j \in DOMAIN is : is[j].k = IssuesOf(i)[j]

\* C4: if create_issue fails for an issue of a created milestone the failure
\* is logged and the import goes on with the next issue of the milestone; it
\* never keeps the remaining issues or milestones from being attempted.
C4_IssueFailureDoesNotStopImport ==
    \A n \in DOMAIN calls :
        (IsIssueCall(calls[n]) /\ Failed(calls[n]) /\ pc = "done" /\ WellFormedRun) =>
            /\ \E l \in DOMAIN logged : logged[l] # "info:Import process completed"
            /\ calls[n].k < Len(IssuesOf(calls[n].m)) =>
                   \E q \in (n + 1)..Len(calls) :
                       /\ IsIssueCall(calls[q])
                       /\ calls[q].m = calls[n].m
                       /\ calls[q].k = calls[n].k + 1
            /\ calls[n].m < Len(data) =>
                   \E q \in (n + 1)..Len(calls) :
                       IsMilestoneCall(calls[q]) /\ calls[q].m = calls[n].m + 1

\* C5: when the import file is missing or is not valid JSON, import_data
\* returns False and has issued no network call at all.
C5_FileErrorNoNetworkCall ==
    file # "ok" =>
        /\ calls = <<>>
        /\ last = NoCall
        /\ srv_count = 0
        /\ pc \in {"start", "done"}
        /\ pc = "done" => result = "False"

C5_Witness == pc = "done" /\ file = "invalid_json" /\ Len(data) = MaxMilestones

\* C6: once the file has been read and parsed, import_data ends Completed
\* (returns True after "Import process completed") with every milestone
\* processed, whatever create calls failed; it ends Failed only for a
\* missing file or invalid JSON.
C6_ParsedImportAlwaysCompletes ==
    (pc = "done" /\ WellFormedRun) =>
        /\ file = "ok" =>
               /\ result = "True"
               /\ \A i \in DOMAIN data :
                      \E n \in DOMAIN calls : IsMilestoneCall(calls[n]) /\ calls[n].m = i
        /\ result = "False" => file # "ok"

\* C7: once a create call has failed with HTTP 401 the import is over: that
\* call is the last call issued, whatever items remain.
C7_AuthFailureAborts ==
    \A n \in DOMAIN calls :
        calls[n].status = 401 =>
            /\ n = Len(calls)
            /\ pc = "done"
            /\ result = "False"

C7_Witness ==
    /\ calls # <<>>
    /\ calls[Len(calls)].status = 401
    /\ IsIssueCall(calls[Len(calls)])
    /\ calls[Len(calls)].k < Len(IssuesOf(calls[Len(calls)].m))
    /\ calls[Len(calls)].m < Len(data)

\* C8: every create_issue call carries in its milestone field the id the
\* server returned in the create_milestone response of the issue's own parent
\* milestone: never the id of another milestone, never an unset value.
C8_IssueCarriesParentId ==
    \A n \in DOMAIN calls :
        IsIssueCall(calls[n]) =>
            /\ calls[n].milestone # None
            /\ \E p \in 1..(n - 1) :
                   /\ IsMilestoneCall(calls[p])
                   /\ calls[p].m = calls[n].m
                   /\ calls[p].ret = "full"
                   /\ calls[p].milestone = calls[n].milestone
            /\ \A p \in DOMAIN calls :
                   (IsMilestoneCall(calls[p]) /\ calls[p].m # calls[n].m) =>
                       calls[p].milestone # calls[n].milestone

C8_Witness ==
    \E n \in DOMAIN calls, p \in DOMAIN calls :
        /\ IsIssueCall(calls[n]) /\ calls[n].m = 2 /\ calls[n].k = 2
        /\ IsMilestoneCall(calls[p]) /\ calls[p].m = 1 /\ calls[p].ret = "full"

\* C9: a logical call of _make_request issues at most 2 physical HTTP
\* requests, whatever the server answers.
C9_AtMostTwoPhysicalRequests == last.requests <= 2

C9_Witness == last.rate_limited /\ last.exc = "RequestException" /\ last.requests = 1

\* C10: when the first response of a logical call is rate-limited (403/429,
\* remaining = 0, reset in the future) the call sleeps until the reset and
\* then reissues the same request once, and no third time.
C10_RateLimitedCallRetriedOnce ==
    last.rate_limited =>
        /\ last.slept
        /\ now = last.reset.v
        /\ last.requests = 2

\* C12: a logical call that ends in a non-2xx status other than rate-limiting
\* or 401, or in a network-level failure, issues exactly one physical request
\* and raises to its caller; _make_request never retries it.
C12_OtherFailuresNotRetried ==
    (last.requests > 0 /\ ~last.rate_limited /\ last.status \notin {201, 401, 429}) =>
        /\ last.requests = 1
        /\ last.exc # "none"
        /\ pc = "done"
        /\ result = "False"

C12_Witness ==
    /\ last.status = 422
    /\ last.requests = 1
    /\ last.exc = "RequestException"
    /\ Len(calls) = 2


\* C11: when the first response of a logical call is 401, the refresh would
\* succeed and the reissued request would be answered with success, the call
\* returns the successful result after a second physical request, and the
\* client's token and Authorization header are the refreshed access token.
C11_RefreshedAndRetriedOn401 ==
    (script.first = 401 /\ script.refresh = "tokens" /\ script.retry = 201) =>
        /\ last.exc = "none"
        /\ last.requests = 2
        /\ token = access_token
        /\ headers = access_token

\* C19: refresh_access_token always returns a boolean: True exactly when a
\* new access token was installed, False otherwise, the tokens then unchanged.
C19_RefreshReturnsBoolean ==
    last_refresh.ret # "none" =>
        /\ last_refresh.ret \in {"True", "False"}
        /\ last_refresh.ret = "True" <=> last_refresh.outcome = "tokens"
        /\ last_refresh.ret = "False" =>
               <<access_token, refresh_token>> = last_refresh.before

\* C20: over any sequence of load_stored_tokens, set_on_auth_success and
\* OAuth callback events the on_auth_success callback is invoked at most once.
C20_AuthSuccessInvokedAtMostOnce == Len(invoked) <= 1
\* C13: every call the client makes, REST or GraphQL, leaves
\* rate_limit_remaining and rate_limit_reset equal to the values carried by
\* the most recent response.
C13_RateLimitStateFollowsLastResponse ==
    (seen.remaining.k = "int" /\ seen.reset.k = "int") =>
        /\ rate_limit_remaining = seen.remaining.v
        /\ rate_limit_reset = seen.reset.v

\* C14: for M issues over P pages delete_all_issues posts exactly P list
\* queries and at most M delete mutations, and a mutation that fails does not
\* keep the later issues from being attempted: with the listing answered, the
\* run ends having gone through all M node ids in order.
C14_PagesListedAllIssuesAttempted ==
    /\ di <= srv_total
    /\ list_queries <= PagesOf(srv_total)
    /\ del_pc \in {"deleting", "done"} =>
           /\ list_queries = PagesOf(srv_total)
           /\ all_issue_node_ids = [j \in 1..srv_total |-> j]
    /\ del_failed # {} => del_pc \in {"deleting", "done"}
    /\ del_pc = "done" => di = srv_total

C14_Witness ==
    /\ del_pc = "done"
    /\ srv_total = MaxRepoIssues
    /\ list_queries > 1
    /\ 1 \in del_failed
    /\ di = srv_total
\* C15: ImportGUI.clear_milestones_and_issues goes on to the clear operation,
\* its only way to a delete call, only when the repository string has the
\* form owner/repo and the user has confirmed the dialog; a cancelled dialog
\* or an empty or malformed selection ends the handler before it.
C15_ClearGatedByConfirmation ==
    /\ \A i \in DOMAIN stack :
           (stack[i].h = "clear" /\ stack[i].pc # "start") =>
               (stack[i].repo = "owner/repo" /\ stack[i].confirmed)
    /\ last_clear.called => (last_clear.repo = "owner/repo" /\ last_clear.confirmed)

C15_Witness ==
    /\ last_clear.called
    /\ last_clear.confirmed
    /\ last_clear.exc = "running"
    /\ stack # <<>>
    /\ stack[Len(stack)].h = "clear"
    /\ stack[Len(stack)].pc = "in_call"

\* C16: a confirmed clear operation runs the phases fetch issues, delete
\* issues, fetch milestones, delete milestones, in this order.
C16_ClearRunsPhasesInOrder ==
    (last_clear.called /\ last_clear.exc # "running") =>
        /\ last_clear.exc = "none"
        /\ last_clear.phases = <<"fetch_issues", "delete_issues",
                                 "fetch_milestones", "delete_milestones">>

\* C17: no two bulk operations are in progress at the same time: at most one
\* handler is inside its call into DataImporter, and while it is, it is the
\* innermost handler, so that no other handler starts or moves before the
\* call has returned.
C17_OneBulkOperationAtATime ==
    /\ Cardinality({i \in DOMAIN stack : stack[i].pc = "in_call"}) <= 1
    /\ \A i \in DOMAIN stack : stack[i].pc = "in_call" => i = Len(stack)

C17_Witness ==
    /\ Len(stack) = 2
    /\ stack[1].pc = "update1"
    /\ stack[2].pc = "in_call"
\* C18: importing the document that get_milestones_with_issues produced,
\* with every call answered with success, creates as many milestones as the
\* document has and, under each, as many issues as the milestone has.
C18_RoundTripReproduces ==
    (origin = "export" /\ pc = "done" /\ \A i \in DOMAIN calls : ~Failed(calls[i])) =>
        /\ result = "True"
        /\ Cardinality({i \in DOMAIN calls : IsMilestoneCall(calls[i])}) = Len(data)
        /\ \A m \in DOMAIN data :
               Cardinality({i \in DOMAIN calls :
                   IsIssueCall(calls[i]) /\ calls[i].m = m}) = Len(data[m].issues)
\* C21: after a REST response with integer rate-limit headers the client
\* suspends exactly when remaining is 0, then until the reset time; a response
\* with remaining >= 1 never suspends it.
C21_SuspendsOnlyAtZeroRemaining ==
    (last.status # 0 /\ seen.remaining.k = "int" /\ seen.reset.k = "int") =>
        /\ last.wait > 0 => (seen.remaining.v = 0 /\ now = seen.reset.v)
        /\ seen.remaining.v >= 1 => last.wait = 0

\* C22: a response whose rate-limit headers are absent or malformed does not
\* block the client, and the outcome of the call is that of the status alone:
\* a 2xx response is returned to the caller.
C22_FailsOpenOnMissingHeaders ==
    (last.status # 0 /\ (seen.remaining.k \in {"absent", "bad"}
                          \/ seen.reset.k \in {"absent", "bad"})) =>
        /\ last.wait = 0
        /\ last.status < 400 => last.exc = "none"
\* C25: in delete_issues_individually the pause separates every two
\* consecutive mutations, whatever the outcome of the earlier one: every node
\* id gone through before the most recent one had its turn end with the pause.
C25_DelayBetweenMutations ==
    \A k \in 1..(di - 1) : all_issue_node_ids[k] \in del_slept

\* C26: delete_all_issues issues no mutation before every list page has been
\* fetched with success; a failed list query ends the call with no mutation
\* issued, even for node ids collected from earlier pages.
C26_NoMutationBeforeListingDone ==
    /\ del_pc \in {"listing", "failed"} => di = 0
    /\ di > 0 => /\ list_queries = PagesOf(srv_total)
                 /\ Len(all_issue_node_ids) = srv_total

C26_Witness ==
    /\ del_pc = "failed"
    /\ Len(all_issue_node_ids) > 0
    /\ list_queries = 2
    /\ di = 0

\* C27: the list queries follow the cursors so that no page is requested
\* twice and the listing ends after as many queries as the repository has
\* pages, also when a response carries hasNextPage with a null endCursor.
C27_NoPageListedTwice ==
    /\ list_queries <= PagesOf(srv_total)
    /\ \A i, j \in DOMAIN all_issue_node_ids :
           i # j => all_issue_node_ids[i] # all_issue_node_ids[j]
C24_ExportRequestOrder ==
    /\ \A i, j \in DOMAIN exp_reqs :
           (i < j /\ exp_reqs[j].op = "milestones") => exp_reqs[i].op = "milestones"
    /\ \A i, j \in DOMAIN exp_reqs :
           (i < j /\ exp_reqs[i].op # "milestones") => exp_reqs[i].m <= exp_reqs[j].m
    /\ \A i \in DOMAIN exp_reqs :
           exp_reqs[i].op = "comments" =>
               /\ srv_issues[exp_reqs[i].m][exp_reqs[i].k] > 0
               /\ \A j \in DOMAIN exp_reqs :
                      (exp_reqs[j].op = "comments" /\ exp_reqs[j].m = exp_reqs[i].m
                       /\ exp_reqs[j].k = exp_reqs[i].k) => j = i
    /\ exp_result = "returned" =>
           \A m \in DOMAIN srv_issues : \A k \in DOMAIN srv_issues[m] :
               srv_issues[m][k] > 0 =>
                   \E i \in DOMAIN exp_reqs : exp_reqs[i] = Request("comments", m, k)

C24_Witness ==
    /\ exp_result = "returned"
    /\ Len(srv_issues) = 2
    /\ srv_issues[1] = <<0, 1>>
    /\ srv_issues[2] = <<1>>

\* C30: get_milestones_with_issues is all or nothing: when a request of the
\* export fails the call raises and returns nothing; when it returns, every
\* milestone of the result carries its issues.
C30_ExportAllOrNothing ==
    /\ (exp_pc = "done" /\ last.exc # "none") => exp_result = "raise"
    /\ exp_result = "returned" =>
           \A m \in DOMAIN milestones : milestones[m].has_issues

C30_Witness ==
    /\ exp_result = "raise"
    /\ Len(milestones) = 2
    /\ milestones[1].has_issues
    /\ exp_reqs[Len(exp_reqs)].op = "comments"
\* C28: setup_after_auth takes effect at most once: one client is installed
\* by a completed setup, and once setup_completed is True the client and the
\* data importer keep the token of that setup, whatever invocations follow or
\* interleave.
C28_SetupTakesEffectOnce ==
    /\ Len(installed) <= 1
    /\ setup_completed =>
           /\ token = installed[1]
           /\ headers = installed[1]
           /\ data_importer = installed[1]
\* C29: an import started from the main window reads the file chosen in the
\* file dialog and is aimed at the owner and the repository of the dropdown's
\* selection.
C29_ImportTargetsSelection ==
    mw_import.called =>
        /\ mw_import.opened = mw_import.file_path
        /\ \E i \in Icons, o \in Logins, n \in RepoNames :
               /\ mw_import.selection = RepoLabel(i, o, n)
               /\ mw_import.repo_owner = o
               /\ mw_import.repo_name = n
====
